---- MODULE Spec2Model ----
(***************************************************************************)
(* Model of the pathtracer core: the sphere intersector (intersect), the   *)
(* nearest-hit resolver (trace_radiance), the per-pixel render loop        *)
(* (render), the backbuffer and the frame loop of main.                    *)
(*                                                                         *)
(* f32 values are modelled as fixed-point numbers: the integer n stands    *)
(* for the value n / SCALE.  Every arithmetic operation rounds its result  *)
(* to the nearest representable value, as the f32 operation does, so that  *)
(* rounding error is part of the model (a result that is exact in the      *)
(* reals need not be exact here).  NaN and infinities are not modelled:    *)
(* rays always have a non-zero direction and radii are positive.           *)
(***************************************************************************)
EXTENDS Integers, Sequences, FiniteSets, TLC

\* Number of representable steps per unit (resolution of the number model).
SCALE == 1000

\* Largest number of spheres in a scene.
MaxSpheres == 2

\* Largest backbuffer width and height.
MaxWidth == 2
MaxHeight == 2

\* Number of frames main's loop runs before the window is closed.
MaxFrames == 2

\* Rounding tolerance: representable steps allowed per unit of distance.
Tol == 2

----------------------------------------------------------------------------
(* Scalar arithmetic on the number model.                                  *)

Abs(n) == IF n < 0 THEN -n ELSE n

\* n / d for integers, rounded to the nearest integer (ties away from 0).
RoundDiv(n, d) ==
  IF n >= 0 THEN (2 * n + d) \div (2 * d)
            ELSE -((2 * (-n) + d) \div (2 * d))

\* f32 literal / integer-to-float conversion (x as f32).
F(i) == i * SCALE

\* a * b
Mul(a, b) == RoundDiv(a * b, SCALE)

\* a / b
Div(a, b) ==
  IF b < 0 THEN -RoundDiv(a * SCALE, -b) ELSE RoundDiv(a * SCALE, b)

RECURSIVE SqrtSearch(_, _, _)
\* Largest r in lo..hi with r * r <= n (requires lo * lo <= n).
SqrtSearch(n, lo, hi) ==
  IF lo >= hi THEN lo
  ELSE LET mid == (lo + hi + 1) \div 2
       IN  IF mid * mid <= n THEN SqrtSearch(n, mid, hi)
                             ELSE SqrtSearch(n, lo, mid - 1)

\* f32::sqrt, correctly rounded to the nearest representable value.
Sqrt(a) ==
  LET n == a * SCALE
      r == SqrtSearch(n, 0, 46340)
  IN  IF n - r * r > r THEN r + 1 ELSE r

----------------------------------------------------------------------------
(* Vec3 = Vector3<f32>                                                     *)

Vec3(x, y, z) == [x |-> x, y |-> y, z |-> z]

Zero == Vec3(0, 0, 0)

VAdd(a, b) == Vec3(a.x + b.x, a.y + b.y, a.z + b.z)

VSub(a, b) == Vec3(a.x - b.x, a.y - b.y, a.z - b.z)

\* scalar * vector
VScale(s, a) == Vec3(Mul(s, a.x), Mul(s, a.y), Mul(s, a.z))

Dot(a, b) == Mul(a.x, b.x) + Mul(a.y, b.y) + Mul(a.z, b.z)

Length(a) == Sqrt(Dot(a, a))

Normalize(a) ==
  LET l == Length(a) IN Vec3(Div(a.x, l), Div(a.y, l), Div(a.z, l))

----------------------------------------------------------------------------
(* Scene model                                                             *)

\* Material::Color(color)
Color(c) == [color |-> c]

Ray(origin, direction) == [origin |-> origin, direction |-> direction]

Sphere(origin, radius, material) ==
  [origin |-> origin, radius |-> radius, material |-> material]

Plane(origin, u, v) == [origin |-> origin, u |-> u, v |-> v]

Camera(projection_plane, eye) ==
  [projection_plane |-> projection_plane, eye |-> eye]

\* Option<Hit>: None, and Some(Hit::new(parameter, position, normal, material))
None == [some |-> FALSE]

Hit(parameter, position, normal, material) ==
  [some |-> TRUE, parameter |-> parameter, position |-> position,
   normal |-> normal, material |-> material]

----------------------------------------------------------------------------
(* intersect                                                               *)

to_center(sphere, ray) == VSub(sphere.origin, ray.origin)

projection(sphere, ray) == Dot(ray.direction, to_center(sphere, ray))

inner_hit_distance(sphere, ray) ==
  LET on_ray_to_center == VScale(projection(sphere, ray), ray.direction)
      to_inner_hit == VSub(to_center(sphere, ray), on_ray_to_center)
  IN  Length(to_inner_hit)

on_ray_in_sphere(sphere, ray) ==
  LET d == inner_hit_distance(sphere, ray)
  IN  Sqrt(Mul(sphere.radius, sphere.radius) - Mul(d, d))

t1(sphere, ray) == projection(sphere, ray) - on_ray_in_sphere(sphere, ray)

t2(sphere, ray) == projection(sphere, ray) + on_ray_in_sphere(sphere, ray)

\* intersect without the early return for a center behind the ray origin.
intersect_no_behind_check(sphere, ray) ==
  IF inner_hit_distance(sphere, ray) > sphere.radius THEN None
  ELSE LET parameter == IF t1(sphere, ray) < t2(sphere, ray)
                        THEN t1(sphere, ray) ELSE t2(sphere, ray)
           position == VAdd(ray.origin, VScale(parameter, ray.direction))
           normal == Normalize(VSub(position, sphere.origin))
       IN  Hit(parameter, position, normal, sphere.material)

\* intersect selecting the larger of the two roots.
intersect_far_root(sphere, ray) ==
  IF projection(sphere, ray) < 0 THEN None
  ELSE IF inner_hit_distance(sphere, ray) > sphere.radius THEN None
  ELSE LET parameter == IF t1(sphere, ray) > t2(sphere, ray)
                        THEN t1(sphere, ray) ELSE t2(sphere, ray)
           position == VAdd(ray.origin, VScale(parameter, ray.direction))
           normal == Normalize(VSub(position, sphere.origin))
       IN  Hit(parameter, position, normal, sphere.material)

\* intersect rejecting a perpendicular distance equal to the radius.
intersect_tangent_miss(sphere, ray) ==
  IF projection(sphere, ray) < 0 THEN None
  ELSE IF inner_hit_distance(sphere, ray) >= sphere.radius THEN None
  ELSE LET parameter == IF t1(sphere, ray) < t2(sphere, ray)
                        THEN t1(sphere, ray) ELSE t2(sphere, ray)
           position == VAdd(ray.origin, VScale(parameter, ray.direction))
           normal == Normalize(VSub(position, sphere.origin))
       IN  Hit(parameter, position, normal, sphere.material)

intersect(sphere, ray) ==
  IF projection(sphere, ray) < 0 THEN None
  ELSE IF inner_hit_distance(sphere, ray) > sphere.radius THEN None
  ELSE LET parameter == IF t1(sphere, ray) < t2(sphere, ray)
                        THEN t1(sphere, ray) ELSE t2(sphere, ray)
           position == VAdd(ray.origin, VScale(parameter, ray.direction))
           normal == Normalize(VSub(position, sphere.origin))
       IN  Hit(parameter, position, normal, sphere.material)

----------------------------------------------------------------------------
(* trace_radiance                                                          *)

\* scan_sphere replacing the nearest hit on an equal parameter.
scan_sphere_tie_replaces(nearest_hit, sphere, ray) ==
  LET hit == intersect(sphere, ray)
  IN  IF hit.some
      THEN IF nearest_hit.some
           THEN IF hit.parameter <= nearest_hit.parameter
                THEN hit
                ELSE nearest_hit
           ELSE hit
      ELSE nearest_hit

\* scan_sphere keeping the hit with the larger parameter.
scan_sphere_keeps_farther(nearest_hit, sphere, ray) ==
  LET hit == intersect(sphere, ray)
  IN  IF hit.some
      THEN IF nearest_hit.some
           THEN IF hit.parameter > nearest_hit.parameter
                THEN hit
                ELSE nearest_hit
           ELSE hit
      ELSE nearest_hit

\* One iteration of the loop over scene.spheres: the new nearest_hit.
scan_sphere(nearest_hit, sphere, ray) ==
  LET hit == intersect(sphere, ray)
  IN  IF hit.some
      THEN IF nearest_hit.some
           THEN IF hit.parameter < nearest_hit.parameter
                THEN hit
                ELSE nearest_hit
           ELSE hit
      ELSE nearest_hit

RECURSIVE scan_from(_, _, _, _)
\* The loop over scene.spheres from index i on, in scene order.
scan_from(spheres, i, nearest_hit, ray) ==
  IF i > Len(spheres) THEN nearest_hit
  ELSE scan_from(spheres, i + 1, scan_sphere(nearest_hit, spheres[i], ray), ray)

\* nearest_hit after the loop.
nearest_hit_of(ray, scene) == scan_from(scene, 1, None, ray)

\* trace_radiance with a white background.
trace_radiance_white_background(ray, scene) ==
  LET nearest_hit == nearest_hit_of(ray, scene)
  IN  IF nearest_hit.some THEN nearest_hit.material.color
      ELSE Vec3(F(1), F(1), F(1))

trace_radiance(ray, scene) ==
  LET nearest_hit == nearest_hit_of(ray, scene)
  IN  IF nearest_hit.some THEN nearest_hit.material.color ELSE Zero

----------------------------------------------------------------------------
(* Pixel and Backbuffer                                                    *)

Pixel(r, g, b) == [r |-> r, g |-> g, b |-> b]

\* f32 as u8: truncates toward zero and saturates at 0 and 255.
AsU8(a) ==
  IF a < 0 THEN 0
  ELSE IF a \div SCALE > 255 THEN 255
  ELSE a \div SCALE

\* from_unit without the scaling by 255.
from_unit_unscaled(color) ==
  Pixel(AsU8(color.x), AsU8(color.y), AsU8(color.z))

from_unit(color) ==
  Pixel(AsU8(Mul(color.x, F(255))),
        AsU8(Mul(color.y, F(255))),
        AsU8(Mul(color.z, F(255))))

\* Backbuffer::new; pixels is indexed from 0 as the Vec is.
Backbuffer_new(width, height) ==
  [width |-> width, height |-> height,
   pixels |-> [i \in 0 .. (width * height - 1) |-> Pixel(0, 0, 0)]]

\* set_index with the height as the row stride.
set_index_height_stride(bb, px, py) == py * bb.height + px

\* set_index with x and y exchanged.
set_index_swapped(bb, px, py) == px * bb.width + py

\* The index Backbuffer::set computes for (x, y).
set_index(bb, px, py) == py * bb.width + px

\* Backbuffer::set; the caller checks that the index is in bounds.
Backbuffer_set(bb, px, py, pixel) ==
  [bb EXCEPT !.pixels[set_index(bb, px, py)] = pixel]

----------------------------------------------------------------------------
(* render: the body of the loop for one pixel                              *)

\* The ray render generates for pixel (px, py).
pixel_ray(cam, px, py) ==
  LET du == VScale(F(px), cam.projection_plane.u)
      dv == VScale(F(py), cam.projection_plane.v)
      origin == VAdd(VAdd(cam.projection_plane.origin, du), dv)
      direction == Normalize(VSub(origin, cam.eye))
  IN  Ray(origin, direction)

\* The Pixel render computes for pixel (px, py).
pixel_color(cam, scn, px, py) ==
  from_unit(trace_radiance(pixel_ray(cam, px, py), scn))

RECURSIVE render_from(_, _, _, _, _)
\* The nested loop of render from pixel (px, py) on: y outer, x inner.
render_from(bb, cam, scn, px, py) ==
  IF py >= bb.height THEN bb
  ELSE IF px >= bb.width THEN render_from(bb, cam, scn, 0, py + 1)
  ELSE render_from(Backbuffer_set(bb, px, py, pixel_color(cam, scn, px, py)),
                   cam, scn, px + 1, py)

\* render(backbuffer, camera, scene): the backbuffer after the call.
render(bb, cam, scn) == render_from(bb, cam, scn, 0, 0)

----------------------------------------------------------------------------
(* Inputs                                                                  *)

\* Vec3::new with whole-number components.
P(i, j, k) == Vec3(F(i), F(j), F(k))

Red == Color(P(1, 0, 0))
Green == Color(P(0, 1, 0))

\* Spheres and rays handed to intersect.
IntersectSpheres ==
  { Sphere(c, F(r), Red) : c \in {P(0, 0, 0), P(0, 3, 5), P(0, 0, 5)},
                           r \in {1, 3, 5} }

RayOrigins ==
  {P(0, 0, 0), P(0, 0, -1), P(-1, -1, -5), P(-3, -3, -3), P(0, 0, -10)}

RayTargets ==
  {P(0, 0, 0), P(0, 3, 5), P(0, 0, 5), P(0, 0, -20), P(1, 1, 0), P(0, 0, 10)}

\* Rays with a normalized, non-zero direction.
IntersectRays ==
  { Ray(o, Normalize(VSub(t, o))) : <<o, t>> \in
      { q \in RayOrigins \X RayTargets : q[1] # q[2] } }

\* Scenes and rays handed to trace_radiance.
TraceSpheres ==
  { Sphere(g[1], F(g[2]), m) :
      g \in {<<P(0, 0, 0), 3>>, <<P(0, 0, 5), 1>>, <<P(0, 3, 5), 3>>},
      m \in {Red, Green} }

TraceScenes == UNION { [1 .. n -> TraceSpheres] : n \in 0 .. MaxSpheres }

TraceRays ==
  { Ray(q[1], Normalize(VSub(q[2], q[1]))) : q \in
      { <<P(0, 0, -10), P(0, 0, 0)>>, <<P(0, 0, -10), P(1, 1, 0)>>,
        <<P(0, 0, 0), P(0, 0, 5)>>, <<P(0, 0, 0), P(0, 0, -20)>>,
        <<P(-1, -1, -5), P(0, 0, 5)>>, <<P(0, 0, -1), P(0, 3, 5)>> } }

\* The camera of main for a width x height backbuffer.
CameraMain(width, height) ==
  Camera(Plane(P(-2, -2, -5),
               Vec3(Div(F(4), F(width)), 0, 0),
               Vec3(0, Div(F(4), F(height)), 0)),
         P(0, 0, -20))

\* A camera with whole-number pixel steps.
CameraUnit == Camera(Plane(P(-1, -1, -5), P(1, 0, 0), P(0, 1, 0)), P(0, 0, -10))

Cameras(width, height) == {CameraMain(width, height), CameraUnit}

\* One sphere filling the frame of CameraUnit.
SceneFill == << Sphere(P(0, 0, 0), F(5), Red) >>

\* Two unit spheres, red first and green second, as main builds its scenes.
MainScenes ==
  { << Sphere(p1, F(1), Red), Sphere(p2, F(1), Green) >> :
      p1 \in {P(0, 1, 1), P(-2, -2, 0)}, p2 \in {P(0, 0, 0), P(0, 1, 0)} }

RenderScenes == {<< >>, SceneFill} \cup MainScenes

\* Scenes rendered by independent tasks: no sphere, and a red and a green one.
TaskScenes ==
  {<< >>, << Sphere(P(-2, -2, 0), F(1), Red), Sphere(P(0, 0, 0), F(1), Green) >>}

----------------------------------------------------------------------------
(* State                                                                   *)

VARIABLES
  pc,           \* position of the running code
  sphere,       \* argument of intersect
  ray,          \* argument of intersect and of trace_radiance
  hit,          \* value returned by intersect
  scene,        \* the Scene of the frame / argument of trace_radiance
  radiance,     \* value returned by trace_radiance
  camera,       \* the Camera of main
  backbuffer,   \* the Backbuffer of main
  x, y,         \* loop variables of render
  frame_index,  \* frame counter of main
  writes,       \* per cell: number of Backbuffer::set calls in this render call
  before,       \* the pixels of the backbuffer when render was called
  task,         \* per pixel: progress of its task when run as independent tasks
  pending       \* per pixel: the Pixel its task has computed and not yet written

vars == << pc, sphere, ray, hit, scene, radiance, camera, backbuffer,
           x, y, frame_index, writes, before, task, pending >>

NoSphere == Sphere(Zero, F(1), Red)
NoRay == Ray(Zero, P(0, 0, 1))
NoCamera == CameraUnit
NoBackbuffer == Backbuffer_new(0, 0)

Cells(bb) == 0 .. (bb.width * bb.height - 1)

Pixels(bb) == (0 .. (bb.width - 1)) \X (0 .. (bb.height - 1))

NoWrites(bb) == [i \in Cells(bb) |-> 0]

----------------------------------------------------------------------------
(* SpecIntersect: one call of intersect on every sphere and ray            *)

InitIntersect ==
  /\ pc = "call"
  /\ sphere \in IntersectSpheres
  /\ ray \in IntersectRays
  /\ hit = None
  /\ scene = << >> /\ radiance = Zero /\ camera = NoCamera
  /\ backbuffer = NoBackbuffer /\ x = 0 /\ y = 0 /\ frame_index = 0
  /\ writes = << >> /\ before = << >> /\ task = << >> /\ pending = << >>

CallIntersect ==
  /\ pc = "call"
  /\ hit' = intersect(sphere, ray)
  /\ pc' = "returned"
  /\ UNCHANGED << sphere, ray, scene, radiance, camera, backbuffer,
                  x, y, frame_index, writes, before, task, pending >>

NextIntersect == CallIntersect

SpecIntersect == InitIntersect /\ [][NextIntersect]_vars

----------------------------------------------------------------------------
(* SpecTrace: one call of trace_radiance on every scene and ray            *)

InitTrace ==
  /\ pc = "call"
  /\ scene \in TraceScenes
  /\ ray \in TraceRays
  /\ radiance = Zero
  /\ sphere = NoSphere /\ hit = None /\ camera = NoCamera
  /\ backbuffer = NoBackbuffer /\ x = 0 /\ y = 0 /\ frame_index = 0
  /\ writes = << >> /\ before = << >> /\ task = << >> /\ pending = << >>

CallTraceRadiance ==
  /\ pc = "call"
  /\ radiance' = trace_radiance(ray, scene)
  /\ hit' = nearest_hit_of(ray, scene)
  /\ pc' = "returned"
  /\ UNCHANGED << sphere, ray, scene, camera, backbuffer,
                  x, y, frame_index, writes, before, task, pending >>

NextTrace == CallTraceRadiance

SpecTrace == InitTrace /\ [][NextTrace]_vars

----------------------------------------------------------------------------
(* Spec: the frame loop of main, render running one pixel per step         *)

Init ==
  /\ pc = "render"
  /\ \E width \in 1 .. MaxWidth, height \in 1 .. MaxHeight :
       /\ backbuffer = Backbuffer_new(width, height)
       /\ camera \in Cameras(width, height)
  /\ scene \in RenderScenes
  /\ x = 0 /\ y = 0
  /\ frame_index = 0
  /\ writes = NoWrites(backbuffer)
  /\ before = backbuffer.pixels
  /\ sphere = NoSphere /\ ray = NoRay /\ hit = None /\ radiance = Zero
  /\ task = << >> /\ pending = << >>

\* One iteration of the inner loop of render, for pixel (x, y).  An index
\* outside the pixel vector makes Backbuffer::set panic.
RenderPixel ==
  /\ pc = "render"
  /\ LET index == set_index(backbuffer, x, y)
     IN  IF index \in DOMAIN backbuffer.pixels
         THEN /\ ray' = pixel_ray(camera, x, y)
              /\ radiance' = trace_radiance(pixel_ray(camera, x, y), scene)
              /\ backbuffer' = Backbuffer_set(backbuffer, x, y,
                                              pixel_color(camera, scene, x, y))
              /\ writes' = [writes EXCEPT ![index] = @ + 1]
              /\ x' = IF x + 1 < backbuffer.width THEN x + 1 ELSE 0
              /\ y' = IF x + 1 < backbuffer.width THEN y ELSE y + 1
              /\ pc' = IF x + 1 < backbuffer.width \/ y + 1 < backbuffer.height
                       THEN "render" ELSE "present"
         ELSE /\ pc' = "panic"
              /\ UNCHANGED << ray, radiance, backbuffer, writes, x, y >>
  /\ UNCHANGED << sphere, hit, scene, camera, frame_index, before, task, pending >>

\* The rest of the loop body of main after render returned, and the start
\* of the next iteration: the frame is presented, no close was requested,
\* frame_index is incremented, the scene is rebuilt and render is called.
NextFrame ==
  /\ pc = "present"
  /\ frame_index + 1 < MaxFrames
  /\ frame_index' = frame_index + 1
  /\ scene' \in RenderScenes
  /\ x' = 0 /\ y' = 0
  /\ writes' = NoWrites(backbuffer)
  /\ before' = backbuffer.pixels
  /\ pc' = "render"
  /\ UNCHANGED << sphere, ray, hit, radiance, camera, backbuffer, task, pending >>

\* The frame is presented and CloseRequested ends the loop.
CloseRequested ==
  /\ pc = "present"
  /\ frame_index' = frame_index + 1
  /\ pc' = "exit"
  /\ UNCHANGED << sphere, ray, hit, scene, radiance, camera, backbuffer,
                  x, y, writes, before, task, pending >>

Next == RenderPixel \/ NextFrame \/ CloseRequested

Spec == Init /\ [][Next]_vars

----------------------------------------------------------------------------
(* SpecPar: the per-pixel steps of one render call as independent tasks    *)

InitPar ==
  /\ pc = "par"
  /\ \E width \in 1 .. MaxWidth, height \in 1 .. MaxHeight :
       /\ backbuffer = Backbuffer_new(width, height)
       /\ camera \in Cameras(width, height)
  /\ scene \in TaskScenes
  /\ x = 0 /\ y = 0
  /\ frame_index = 0
  /\ writes = NoWrites(backbuffer)
  /\ before = backbuffer.pixels
  /\ task = [p \in Pixels(backbuffer) |-> "ready"]
  /\ pending = [p \in Pixels(backbuffer) |-> Pixel(0, 0, 0)]
  /\ sphere = NoSphere /\ ray = NoRay /\ hit = None /\ radiance = Zero

\* The task of pixel p generates its ray and traces it.
TaskTrace(p) ==
  /\ pc = "par"
  /\ task[p] = "ready"
  /\ pending' = [pending EXCEPT ![p] = pixel_color(camera, scene, p[1], p[2])]
  /\ task' = [task EXCEPT ![p] = "traced"]
  /\ UNCHANGED << pc, sphere, ray, hit, scene, radiance, camera, backbuffer,
                  x, y, frame_index, writes, before >>

\* The task of pixel p writes its own cell.
TaskSet(p) ==
  /\ pc = "par"
  /\ task[p] = "traced"
  /\ LET index == set_index(backbuffer, p[1], p[2])
     IN  IF index \in DOMAIN backbuffer.pixels
         THEN /\ backbuffer' = Backbuffer_set(backbuffer, p[1], p[2], pending[p])
              /\ writes' = [writes EXCEPT ![index] = @ + 1]
              /\ task' = [task EXCEPT ![p] = "written"]
              /\ pc' = pc
         ELSE /\ pc' = "panic"
              /\ UNCHANGED << backbuffer, writes, task >>
  /\ UNCHANGED << sphere, ray, hit, scene, radiance, camera,
                  x, y, frame_index, before, pending >>

\* All tasks have finished.
Join ==
  /\ pc = "par"
  /\ \A p \in Pixels(backbuffer) : task[p] = "written"
  /\ pc' = "joined"
  /\ UNCHANGED << sphere, ray, hit, scene, radiance, camera, backbuffer,
                  x, y, frame_index, writes, before, task, pending >>

NextPar ==
  \/ \E p \in Pixels(backbuffer) : TaskTrace(p)
  \/ \E p \in Pixels(backbuffer) : TaskSet(p)
  \/ Join

SpecPar == InitPar /\ [][NextPar]_vars

----------------------------------------------------------------------------
(* Properties of intersect (SpecIntersect)                                 *)

Returned == pc = "returned"

\* The ray's direction has length exactly 1.
UnitDirection == Dot(ray.direction, ray.direction) = F(1)

\* distance(ray.origin, sphere.origin)
CenterDistance == Length(VSub(sphere.origin, ray.origin))

\* The ray starts outside the sphere and points directly at its center.
AimedAtCenter ==
  /\ CenterDistance > sphere.radius
  /\ ray.direction = Normalize(VSub(sphere.origin, ray.origin))

\* The sphere center is in front of the ray origin and the perpendicular
\* distance from the center to the ray line equals the radius.
Tangent ==
  /\ projection(sphere, ray) >= 0
  /\ inner_hit_distance(sphere, ray) = sphere.radius

\* C2: every Hit that intersect returns, for a sphere of positive radius
\* and a ray of unit direction, has parameter >= 0.
C2_ParameterNonNegative ==
  (Returned /\ sphere.radius > 0 /\ UnitDirection /\ hit.some)
    => hit.parameter >= 0

\* C3: when the ray's direction points away from the sphere center
\* (dot(direction, center - origin) < 0), intersect returns no hit, for
\* every radius and every ray origin.
C3_AwayReturnsNone ==
  (Returned /\ Dot(ray.direction, VSub(sphere.origin, ray.origin)) < 0)
    => hit = None

\* C3 witness: intersect has returned for a ray that points away from the
\* center and starts inside the sphere.
C3_Witness ==
  /\ Returned
  /\ Dot(ray.direction, VSub(sphere.origin, ray.origin)) < 0
  /\ CenterDistance < sphere.radius

\* C4 as stated: for a ray from outside aimed directly at the center,
\* intersect returns a hit with parameter exactly distance - radius.
C4_ParameterExact ==
  (Returned /\ AimedAtCenter)
    => (hit.some /\ hit.parameter = CenterDistance - sphere.radius)

\* The rounding error allowed for a ray that travels CenterDistance: Tol
\* steps, and Tol more for every whole unit of distance.
Tolerance == Tol * (1 + CenterDistance \div SCALE)

\* C4 amended: for a ray from outside aimed directly at the center, a hit
\* that intersect returns has parameter distance - radius up to a rounding
\* error proportional to the distance, and a hit is returned whenever the
\* radius is larger than that rounding error.
C4_ParameterWithinTolerance ==
  (Returned /\ AimedAtCenter)
    => /\ hit.some =>
            Abs(hit.parameter - (CenterDistance - sphere.radius)) <= Tolerance
       /\ sphere.radius > Tolerance => hit.some

\* C4 witness: intersect has returned a hit for a ray aimed at the center
\* along a direction that is not exactly representable.
C4_Witness ==
  /\ Returned /\ AimedAtCenter /\ hit.some
  /\ ~UnitDirection
  /\ hit.parameter # CenterDistance - sphere.radius

\* C5: for a tangent ray intersect returns a hit, and the two roots t1 and
\* t2 are equal, both equal to projection.
C5_TangentRootsEqual ==
  (Returned /\ Tangent)
    => /\ hit.some
       /\ t1(sphere, ray) = t2(sphere, ray)
       /\ t1(sphere, ray) = projection(sphere, ray)
       /\ hit.parameter = projection(sphere, ray)

\* C5 witness: intersect has returned for a tangent ray.
C5_Witness == Returned /\ Tangent /\ sphere.radius > 0

----------------------------------------------------------------------------
(* Properties of trace_radiance (SpecTrace)                                *)

\* Indices of the spheres of the scene for which intersect returns a hit.
HitIndices == { i \in 1 .. Len(scene) : intersect(scene[i], ray).some }

ParameterOf(i) == intersect(scene[i], ray).parameter

\* Indices of the hits with the smallest parameter.
NearestIndices ==
  { i \in HitIndices : \A j \in HitIndices : ParameterOf(i) <= ParameterOf(j) }

\* The first sphere in scene order among those with the smallest parameter.
FirstNearest ==
  CHOOSE i \in NearestIndices : \A j \in NearestIndices : i <= j

\* C1: trace_radiance returns the colour of the hit with the smallest
\* parameter among the spheres that are hit; among several spheres with that
\* smallest parameter, the colour of the first in scene order.
C1_NearestHitFirstWins ==
  (Returned /\ HitIndices # {})
    => radiance = scene[FirstNearest].material.color

\* C1 witness: trace_radiance has returned for a scene in which two spheres
\* of different colour share the smallest parameter.
C1_Witness ==
  /\ Returned
  /\ \E i, j \in NearestIndices :
       i < j /\ scene[i].material # scene[j].material

\* C6: trace_radiance returns the zero vector when no sphere of the scene is
\* hit, in particular for a scene without spheres.
C6_NoHitIsZero ==
  (Returned /\ HitIndices = {}) => radiance = Zero

\* C6 witness: trace_radiance has returned for a scene with spheres, none
\* of which is hit.
C6_Witness == Returned /\ Len(scene) > 0 /\ HitIndices = {}

\* Both spheres of a two-sphere scene are hit, at different parameters.
TwoHitsApart ==
  /\ Len(scene) = 2
  /\ HitIndices = {1, 2}
  /\ ParameterOf(1) # ParameterOf(2)

\* C7: for two spheres both hit at different entry parameters,
\* trace_radiance returns the colour of the sphere with the smaller entry
\* parameter, and returns the same colour for the scene in the other order.
C7_OrderIndependent ==
  (Returned /\ TwoHitsApart)
    => /\ radiance = (IF ParameterOf(1) < ParameterOf(2)
                      THEN scene[1] ELSE scene[2]).material.color
       /\ radiance = trace_radiance(ray, << scene[2], scene[1] >>)

\* C7 witness: trace_radiance has returned for two spheres of different
\* colour of which the second is the nearer.
C7_Witness ==
  /\ Returned /\ TwoHitsApart
  /\ ParameterOf(2) < ParameterOf(1)
  /\ scene[1].material # scene[2].material

----------------------------------------------------------------------------
(* Properties of render (Spec) and of its per-pixel tasks (SpecPar)        *)

\* The pixel coordinates of the cell at index i of a row-major buffer.
CellX(i) == i % backbuffer.width
CellY(i) == i \div backbuffer.width

\* Cell i holds the Pixel of the ray generated for its coordinates.
CellRendered(i) ==
  backbuffer.pixels[i] = pixel_color(camera, scene, CellX(i), CellY(i))

\* C8: a call of render writes every backbuffer cell exactly once: no index
\* falls outside the width * height pixel vector, no cell is written twice,
\* and when render has returned every cell y * width + x has been written
\* once, with the pixel of the ray generated for (x, y).
C8_EveryCellWrittenOnce ==
  /\ pc # "panic"
  /\ DOMAIN backbuffer.pixels = Cells(backbuffer)
  /\ \A i \in Cells(backbuffer) : writes[i] <= 1
  /\ pc \in {"present", "exit"} =>
       \A i \in Cells(backbuffer) : writes[i] = 1 /\ CellRendered(i)

\* C8 witness: render has returned from its second call on a 2x2
\* backbuffer whose cells held other pixels before the call.
C8_Witness ==
  /\ pc = "present"
  /\ frame_index = 1
  /\ backbuffer.width = 2 /\ backbuffer.height = 2
  /\ \A i \in Cells(backbuffer) :
       before[i] # Pixel(0, 0, 0) /\ backbuffer.pixels[i] # before[i]

\* C9: with the per-pixel steps run as independent tasks in any
\* interleaving, no two tasks write the same cell, no write falls outside
\* the pixel vector, and the final backbuffer is the one the sequential
\* row-major loop produces.
C9_TasksDisjointAndSequential ==
  /\ pc # "panic"
  /\ \A i \in Cells(backbuffer) : writes[i] <= 1
  /\ \A p, q \in Pixels(backbuffer) :
       p # q => set_index(backbuffer, p[1], p[2]) # set_index(backbuffer, q[1], q[2])
  /\ pc = "joined" =>
       backbuffer = render(Backbuffer_new(backbuffer.width, backbuffer.height),
                           camera, scene)

\* C9 witness: all four tasks of a 2x2 frame that shows both spheres of a
\* two-sphere scene have finished.
C9_Witness ==
  /\ pc = "joined"
  /\ backbuffer.width = 2 /\ backbuffer.height = 2
  /\ \E i, j \in Cells(backbuffer) :
       /\ backbuffer.pixels[i] = Pixel(255, 0, 0)
       /\ backbuffer.pixels[j] = Pixel(0, 255, 0)

\* The end-to-end configuration: 2x2 backbuffer, plane origin (-1,-1,-5),
\* u = (1,0,0), v = (0,1,0), eye (0,0,-10), one sphere at (0,0,0) of radius
\* 5 and material Color(1,0,0).
EndToEnd ==
  /\ backbuffer.width = 2 /\ backbuffer.height = 2
  /\ camera = Camera(Plane(P(-1, -1, -5), P(1, 0, 0), P(0, 1, 0)), P(0, 0, -10))
  /\ scene = << Sphere(P(0, 0, 0), F(5), Color(P(1, 0, 0))) >>

\* C10: in the end-to-end configuration each of the 4 pixel rays resolves
\* to a hit and each of the 4 cells ends as Pixel(255,0,0).
C10_EndToEndAllRed ==
  EndToEnd =>
    /\ \A i \in Cells(backbuffer) :
         writes[i] = 1 =>
           /\ intersect(scene[1], pixel_ray(camera, CellX(i), CellY(i))).some
           /\ backbuffer.pixels[i] = Pixel(255, 0, 0)
    /\ pc = "present" =>
         \A i \in Cells(backbuffer) :
           writes[i] = 1 /\ backbuffer.pixels[i] = Pixel(255, 0, 0)

\* C10 witness: render has returned in the end-to-end configuration.
C10_Witness == EndToEnd /\ pc = "present" /\ frame_index = 0

====
